---- MODULE Spec2Model ----
(***************************************************************************)
(* multidump (src/src/main.rs): scan_sql_dump and split_sql_dump partition *)
(* a MySQL dump into one file per table; import_sql_files replays a        *)
(* directory of files through sh -c "mysql ..." in batches of parallel    *)
(* threads.                                                                *)
(*                                                                         *)
(* Text is modelled byte for byte: a string is a sequence of one-character *)
(* strings, a dump is the sequence of lines BufRead::lines() yields, and   *)
(* an output file is the sequence of bytes written to it.                  *)
(*                                                                         *)
(* Input domain of the import model: parallel >= 1 (paths.chunks(0)        *)
(* panics, and spec section 4.3 requires parallel >= 1) and file names     *)
(* that are valid UTF-8 (path.to_str().unwrap() at line 216 panics on      *)
(* others).                                                                *)
(***************************************************************************)
EXTENDS Integers, Sequences, FiniteSets, TLC

VARIABLES
    cmd,            \* the subcommand being run (main, lines 258-292)
    pc,             \* position of the main thread
    result,         \* what the operation returned: "none" while running
    dump,           \* the lines of the source dump
    preamble,       \* scan_sql_dump's first result (a string)
    postamble,      \* scan_sql_dump's second result (a string)
    index,          \* number of dump lines split_sql_dump has consumed
    table_file,     \* split_sql_dump: the open output file, or NoFile
    table_lines,    \* split_sql_dump: buffered lines, each with its "\n"
    files,          \* the output directory: file name -> bytes
    earlier,        \* the output directory as each earlier run of Split left it
    entries,        \* import: the entries of the input directory
    paths,          \* import: the regular files enumerated (line 175)
    parallel,       \* import: the concurrency bound
    delete,         \* import: the delete flag
    spawned,        \* import: number of paths whose thread was spawned
    chunk_end,      \* import: last path index of the current chunk
    handles,        \* import: join handles of the current chunk
    tpc,            \* import: position of each job thread
    outcome,        \* import: what Command::output() gave each job
    pos,            \* import: the progress bar's position
    msg,            \* import: the progress bar's message
    log,            \* import: jobs for which line 230 wrote to stderr
    finished,       \* import: pb.finish_with_message was called
    removals,       \* import: number of fs::remove_dir_all calls
    launches,       \* import: per directory entry, the threads spawned for it
    conn,           \* import: the optional host, port, user and password
    debug,          \* import: the debug flag
    echo,           \* import: the command lines printed by line 219
    commands        \* import: per job, the string given to sh -c (line 226)

vars == <<cmd, pc, result, dump, preamble, postamble, index, table_file,
          table_lines, files, entries, paths, parallel, delete, spawned,
          chunk_end, handles, tpc, outcome, pos, msg, log, finished,
          removals, launches, earlier, conn, debug, echo, commands>>

splitVars == <<dump, preamble, postamble, index, table_file, table_lines,
               files, earlier>>

cliVars == <<conn, debug, echo, commands>>

importVars == <<entries, paths, parallel, delete, spawned, chunk_end,
                handles, tpc, outcome, pos, msg, log, finished, removals,
                launches, cliVars>>

----------------------------------------------------------------------------
(* Bounds *)

MaxLines == 5

MaxEntries == 4

MaxParallel == 3

MaxRerunLines == 5

MaxFairEntries == 3

MaxNameChars == 4

MaxArgsEntries == 2

MaxPipelineLines == 3

MaxPipelineParallel == 2

----------------------------------------------------------------------------
(* Text *)

NL == "\n"

DROP_TABLE == <<"D", "R", "O", "P", " ", "T", "A", "B", "L", "E">>

UNLOCK_TABLES == <<"U", "N", "L", "O", "C", "K", " ", "T", "A", "B", "L",
                   "E", "S", ";">>

\* The split delimiter of line 129 (the grave accent, byte 96), which the
\* lexer does not accept inside a string: one token stands for the byte.
BACKTICK == "<grave>"

SQL_SUFFIX == <<".", "s", "q", "l">>

\* The lines a dump is drawn from: an ordinary line, table-start lines for
\* tables a and b, a table-start line without a quoted name, the end marker.
LineOrdinary == <<"I">>

LineDropA == DROP_TABLE \o <<" ", BACKTICK, "a", BACKTICK, ";">>

LineDropB == DROP_TABLE \o <<" ", BACKTICK, "b", BACKTICK, ";">>

LineDropBare == DROP_TABLE \o <<" ", "c", ";">>

LineUnlock == UNLOCK_TABLES

LineValues == {LineOrdinary, LineDropA, LineDropB, LineDropBare, LineUnlock}

RECURSIVE SeqsUpTo(_, _)
SeqsUpTo(S, n) ==
    IF n = 0 THEN {<<>>}
    ELSE LET shorter == SeqsUpTo(S, n - 1)
         IN  shorter \cup {Append(s, x) : s \in {t \in shorter : Len(t) = n - 1}, x \in S}

Dumps == SeqsUpTo(LineValues, MaxLines)

SetMin(S) == CHOOSE x \in S : \A y \in S : x <= y

SetMax(S) == CHOOSE x \in S : \A y \in S : x >= y

\* str::starts_with
StartsWith(line, prefix) ==
    /\ Len(line) >= Len(prefix)
    /\ SubSeq(line, 1, Len(prefix)) = prefix

\* [String]::join(sep)
RECURSIVE Join(_, _)
Join(lines, sep) ==
    IF lines = <<>> THEN <<>>
    ELSE IF Len(lines) = 1 THEN lines[1]
    ELSE lines[1] \o <<sep>> \o Join(Tail(lines), sep)

\* [String]::concat()
RECURSIVE Concat(_)
Concat(strings) ==
    IF strings = <<>> THEN <<>> ELSE strings[1] \o Concat(Tail(strings))

NoFile == <<"<none>">>

----------------------------------------------------------------------------
(* scan_sql_dump, lines 68-104 *)

IsTableStart(line) == StartsWith(line, DROP_TABLE)

IsTableEnd(line) == StartsWith(line, UNLOCK_TABLES)

\* Option<usize>: <<>> is None, <<i>> is Some(i)
None == <<>>

Some(i) == <<i>>

\* lines 166-170: the name of the database and the values a connection parameter may have
Database == "db"

Hosts == {None, Some("h")}

Ports == {None, Some(3306)}

Users == {None, Some("u")}

Passwords == {None, Some("p")}

Connections ==
    [host : Hosts, port : Ports, user : Users, password : Passwords]

NoConn == [host |-> None, port |-> None, user |-> None, password |-> None]

\* lines 74-75: the loop's state before the first line
ScanInit ==
    [preamble |-> <<>>, postamble |-> <<>>, in_preamble |-> TRUE,
     last_unlock_line |-> None]

\* lines 79-85: whether the line is pushed to the preamble buffer
PushesPreambleAlways(in_preamble, line) == in_preamble

PushesPreamble(in_preamble, line) == in_preamble /\ ~IsTableStart(line)

\* lines 79-81: in_preamble after the line
StaysInPreamble(in_preamble, line) == in_preamble /\ ~IsTableStart(line)

\* lines 87-91: whether the line is recorded as the last end marker;
\* in_preamble is the value after lines 79-85
RecordsUnlockAnywhere(in_preamble, line) == IsTableEnd(line)

RecordsUnlock(in_preamble, line) == ~in_preamble /\ IsTableEnd(line)

\* lines 77-94: one iteration, for the line at the 0-based position i
ScanLine(st, line, i) ==
    LET in1 == StaysInPreamble(st.in_preamble, line)
    IN  [preamble |-> IF PushesPreamble(st.in_preamble, line)
                      THEN Append(st.preamble, line) ELSE st.preamble,
         postamble |-> Append(st.postamble, line),
         in_preamble |-> in1,
         last_unlock_line |-> IF RecordsUnlock(in1, line)
                              THEN Some(i) ELSE st.last_unlock_line]

\* lines 77-94: the loop over the lines from the 0-based position i on
RECURSIVE ScanLoop(_, _, _)
ScanLoop(st, lines, i) ==
    IF i >= Len(lines) THEN st
    ELSE ScanLoop(ScanLine(st, lines[i + 1], i), lines, i + 1)

\* lines 96-100: postamble.drain(0..=last_unlock_index), or clear()
Drain(buffer, last_unlock_line) ==
    IF last_unlock_line # None
    THEN SubSeq(buffer, last_unlock_line[1] + 2, Len(buffer))
    ELSE <<>>

\* lines 72-103: the pair scan_sql_dump returns
ScanResult(lines) ==
    LET st == ScanLoop(ScanInit, lines, 0)
    IN  [preamble |-> Join(st.preamble, NL),
         postamble |-> Join(Drain(st.postamble, st.last_unlock_line), NL)]

----------------------------------------------------------------------------
(* split_sql_dump, lines 106-162 *)

\* line 129: line.split(BACKTICK).nth(1).unwrap_or("")
TableNameToLastTick(line) ==
    LET ticks == {i \in 1..Len(line) : line[i] = BACKTICK}
    IN  IF ticks = {} THEN <<>>
        ELSE LET first == SetMin(ticks)
                 rest == {i \in ticks : i > first}
                 stop == IF rest = {} THEN Len(line) + 1 ELSE SetMax(rest)
             IN  SubSeq(line, first + 1, stop - 1)

TableName(line) ==
    LET ticks == {i \in 1..Len(line) : line[i] = BACKTICK}
    IN  IF ticks = {} THEN <<>>
        ELSE LET first == SetMin(ticks)
                 rest == {i \in ticks : i > first}
                 stop == IF rest = {} THEN Len(line) + 1 ELSE SetMin(rest)
             IN  SubSeq(line, first + 1, stop - 1)

\* line 131: the file's name inside output_dir
OutputPath(table_name) == table_name \o SQL_SUFFIX

\* line 132: File::create makes the file or truncates an existing one
CreateAppend(fs, path) ==
    [p \in DOMAIN fs \cup {path} |-> IF p \in DOMAIN fs THEN fs[p] ELSE <<>>]

Create(fs, path) ==
    [p \in DOMAIN fs \cup {path} |-> IF p = path THEN <<>> ELSE fs[p]]

\* File::write_all on the open file
WriteAll(fs, path, bytes) == [fs EXCEPT ![path] = @ \o bytes]

\* lines 127, 141: line.clone() + "\n"
WithNewline(line) == Append(line, NL)

\* lines 135-137: what is written when the file is created
HeaderBlankLine(pre, lines) == pre \o <<NL, NL>> \o Concat(lines)

Header(pre, lines) == pre \o <<NL>> \o Concat(lines)

\* lines 121-122, 146-147, 155-156: what is written when the file is closed
Trailer(lines, post) == Concat(lines) \o post

\* lines 120-124, 145-149, 154-158: if let Some(file) = table_file.take()
Finalize(fs, file, lines, post) ==
    IF file # NoFile THEN WriteAll(fs, file, Trailer(lines, post)) ELSE fs

\* lines 119-139: a table-start line
StartLineNoClose(st, line, pre, post) ==
    LET path == OutputPath(TableName(line))
    IN  [files |-> WriteAll(Create(st.files, path), path,
                            Header(pre, <<WithNewline(line)>>)),
         table_file |-> path,
         table_lines |-> <<>>]

StartLine(st, line, pre, post) ==
    LET closed == Finalize(st.files, st.table_file, st.table_lines, post)
        path == OutputPath(TableName(line))
    IN  [files |-> WriteAll(Create(closed, path), path,
                            Header(pre, <<WithNewline(line)>>)),
         table_file |-> path,
         table_lines |-> <<>>]

\* lines 140-142: any other line
OtherLine(st, line) ==
    [st EXCEPT !.table_lines = Append(@, WithNewline(line))]

\* lines 144-151: the end-marker check that follows either branch
EndLineNoClose(st, line, post) == st

EndLine(st, line, post) ==
    IF IsTableEnd(line)
    THEN [files |-> Finalize(st.files, st.table_file, st.table_lines, post),
          table_file |-> NoFile,
          table_lines |-> <<>>]
    ELSE st

\* lines 117-152: one iteration of the loop
SplitStep(st, line, pre, post) ==
    EndLine(IF IsTableStart(line) THEN StartLine(st, line, pre, post)
            ELSE OtherLine(st, line),
            line, post)

SplitState == [files |-> files, table_file |-> table_file,
               table_lines |-> table_lines]

\* main lines 261, 289: where main goes when split_sql_dump(..)? is an error
AfterSplitErrorGoesOn(c) == IF c = "SplitImport" THEN "read_dir" ELSE "done"

AfterSplitError(c) == "done"

\* lines 121-123, 132-137, 146-148: the directory as a failing `?` inside
\* the iteration for this line can leave it: before each write of the
\* iteration, and after each but the last
FailurePoints(st, line, pre, post) ==
    LET open == st.table_file # NoFile
        flushed == IF open THEN WriteAll(st.files, st.table_file, Concat(st.table_lines))
                   ELSE st.files
        lines1 == Append(st.table_lines, WithNewline(line))
    IN  IF IsTableStart(line)
        THEN LET closed == Finalize(st.files, st.table_file, st.table_lines, post)
                 path == OutputPath(TableName(line))
                 made == Create(closed, path)
             IN  {st.files, flushed, closed, made, WriteAll(made, path, pre),
                  WriteAll(made, path, Append(pre, NL))}
        ELSE IF IsTableEnd(line) /\ open
        THEN {st.files, WriteAll(st.files, st.table_file, Concat(lines1))}
        ELSE {st.files}

\* lines 155-157: the same for the writes after the loop
FailurePointsAtEof(st) ==
    IF st.table_file # NoFile
    THEN {st.files, WriteAll(st.files, st.table_file, Concat(st.table_lines))}
    ELSE {st.files}

\* lines 70-71, 78: File::open or a read fails and `?` returns the error
ScanIoError ==
    /\ cmd \in {"Split", "SplitImport"}
    /\ pc = "scan"
    /\ pc' = "done"
    /\ result' = "ScanError"
    /\ UNCHANGED <<cmd, splitVars, importVars>>

\* main lines 260, 288: scan_sql_dump(input)?
Scan ==
    /\ cmd \in {"Split", "SplitImport"}
    /\ pc = "scan"
    /\ preamble' = ScanResult(dump).preamble
    /\ postamble' = ScanResult(dump).postamble
    /\ pc' = "split"
    /\ UNCHANGED <<cmd, result, dump, index, table_file, table_lines, files,
                   earlier, importVars>>

\* lines 107-115: the output directory exists or is made, the dump is opened
SplitOpen ==
    /\ pc = "split"
    /\ pc' = "lines"
    /\ index' = 0
    /\ table_file' = NoFile
    /\ table_lines' = <<>>
    /\ UNCHANGED <<cmd, result, dump, preamble, postamble, files, earlier,
                   importVars>>

\* lines 117-152: the next line of the dump
SplitLine ==
    /\ pc = "lines"
    /\ index < Len(dump)
    /\ LET st == SplitStep(SplitState, dump[index + 1], preamble, postamble)
       IN  /\ files' = st.files
           /\ table_file' = st.table_file
           /\ table_lines' = st.table_lines
    /\ index' = index + 1
    /\ UNCHANGED <<cmd, pc, result, dump, preamble, postamble, earlier,
                   importVars>>

\* lines 154-161: end of the dump; Split returns Ok (main line 294),
\* SplitImport goes on to import_sql_files on the output directory (line 290)
SplitEof ==
    /\ pc = "lines"
    /\ index = Len(dump)
    /\ files' = Finalize(files, table_file, table_lines, postamble)
    /\ table_file' = NoFile
    /\ IF cmd = "SplitImport"
       THEN pc' = "read_dir" /\ UNCHANGED result
       ELSE pc' = "done" /\ result' = "Ok"
    /\ UNCHANGED <<cmd, dump, preamble, postamble, index, table_lines,
                   earlier, importVars>>

\* lines 108, 112, 118, 121-123, 132, 135-137, 146-148, 155-157: a `?` returns
\* an I/O error; what was written so far stays, and main returns the error
SplitIoError ==
    /\ pc \in {"split", "lines"}
    /\ files' \in IF pc = "split" THEN {files}
                  ELSE IF index < Len(dump)
                  THEN FailurePoints(SplitState, dump[index + 1], preamble, postamble)
                  ELSE FailurePointsAtEof(SplitState)
    /\ pc' = AfterSplitError(cmd)
    /\ result' = "SplitError"
    /\ UNCHANGED <<cmd, dump, preamble, postamble, index, table_file,
                   table_lines, earlier, importVars>>

\* main line 255: the same Split command is run again on the unchanged dump
\* and the same output directory
Rerun ==
    /\ cmd = "Split"
    /\ pc = "done"
    /\ result = "Ok"
    /\ earlier = <<>>
    /\ earlier' = Append(earlier, files)
    /\ pc' = "scan"
    /\ result' = "none"
    /\ preamble' = <<>>
    /\ postamble' = <<>>
    /\ index' = 0
    /\ UNCHANGED <<cmd, dump, table_file, table_lines, files, importVars>>

\* main lines 256-292: the state when a subcommand starts, the output
\* directory empty
InitFrom(c, dumps, dirs, ks, flags, conns, debugs) ==
    /\ cmd = c
    /\ pc = IF c = "Import" THEN "read_dir" ELSE "scan"
    /\ result = "none"
    /\ dump \in dumps
    /\ preamble = <<>>
    /\ postamble = <<>>
    /\ index = 0
    /\ table_file = NoFile
    /\ table_lines = <<>>
    /\ files = <<>>
    /\ earlier = <<>>
    /\ entries \in dirs
    /\ paths = <<>>
    /\ parallel \in ks
    /\ delete \in flags
    /\ spawned = 0
    /\ chunk_end = 0
    /\ handles = <<>>
    /\ tpc = <<>>
    /\ outcome = <<>>
    /\ pos = 0
    /\ msg = <<>>
    /\ log = {}
    /\ finished = FALSE
    /\ removals = 0
    /\ launches = [e \in 1..Len(entries) |-> 0]
    /\ conn \in conns
    /\ debug \in debugs
    /\ echo = <<>>
    /\ commands = <<>>

\* main line 259: the Split subcommand on a dump, into an empty directory
InitSplit == InitFrom("Split", Dumps, {<<>>}, {1}, {FALSE}, {NoConn}, {FALSE})

NextSplit ==
    \/ ScanIoError
    \/ Scan
    \/ SplitOpen
    \/ SplitLine
    \/ SplitEof
    \/ SplitIoError

SpecSplit == InitSplit /\ [][NextSplit]_vars

\* Split run twice on dumps of up to MaxRerunLines lines
InitResplit ==
    InitFrom("Split", SeqsUpTo(LineValues, MaxRerunLines), {<<>>}, {1}, {FALSE},
             {NoConn}, {FALSE})

NextResplit ==
    \/ ScanIoError
    \/ Scan
    \/ SplitOpen
    \/ SplitLine
    \/ SplitEof
    \/ SplitIoError
    \/ Rerun

SpecResplit == InitResplit /\ [][NextResplit]_vars

\* main lines 259-262: Split on dumps of one table-start line: DROP TABLE, a space, and up to
\* MaxNameChars characters among the backtick, a letter and a semicolon
NameLines ==
    {DROP_TABLE \o <<" ">> \o tail :
        tail \in SeqsUpTo({BACKTICK, "a", ";"}, MaxNameChars)}

InitName ==
    InitFrom("Split", {<<line>> : line \in NameLines}, {<<>>}, {1}, {FALSE},
             {NoConn}, {FALSE})

SpecName == InitName /\ [][NextSplit]_vars

----------------------------------------------------------------------------
(* import_sql_files, lines 164-253 *)

EntryKinds == {"file", "other"}

Directories == SeqsUpTo(EntryKinds, MaxEntries)

\* line 178: path.is_file()
IsNotFile(kind) == kind # "file"

IsFile(kind) == kind = "file"

\* lines 175-179: the entries that are regular files, in enumeration order
RECURSIVE Enumerate(_, _)
Enumerate(dir, e) ==
    IF e > Len(dir) THEN <<>>
    ELSE (IF IsFile(dir[e]) THEN <<e>> ELSE <<>>) \o Enumerate(dir, e + 1)

\* line 192: paths.chunks(parallel): the last index of the chunk that
\* follows the first `done` paths
ChunkEndSingle(done, k, n) == IF done + 1 < n THEN done + 1 ELSE n

ChunkEndPlusOne(done, k, n) == IF done + k + 1 < n THEN done + k + 1 ELSE n

ChunkEnd(done, k, n) == IF done + k < n THEN done + k ELSE n

\* line 240: handle.join() returns once the thread has run to its end
JoinableAlways(state) == TRUE

Joinable(state) == state = "finished"

\* lines 223-235, 240: the closure returns () whatever output() gave, so
\* join() is Ok and expect() does not panic
JoinResultPanicsOnFailure(o) == IF o = "zero" THEN "joined" ELSE "panicked"

JoinResult(o) == "joined"

\* lines 229-231: only Err(e) from output() is printed to stderr
Reports(o) == o = "launch_err"

\* line 233: pb_clone.inc(1), whatever output() gave
AdvanceOnSuccess(o, p) == IF o = "zero" THEN p + 1 ELSE p

Advance(o, p) == p + 1

\* line 246: if delete
ShouldRemoveAlways(flag) == TRUE

ShouldRemove(flag) == flag

Jobs == 1..Len(paths)

\* line 216: path.to_str() of a directory entry
PathString(e) == "in/f" \o ToString(e)

\* lines 198-200, 206-212: if let Some(v) = opt { args.push(format!(..)) }
Flag(name, opt) == IF opt = None THEN <<>> ELSE <<name \o opt[1]>>

\* lines 202-204: the same for the port, a u16 printed in decimal
FlagNumber(name, opt) == IF opt = None THEN <<>> ELSE <<name \o ToString(opt[1])>>

\* lines 196-216: the argument list of a file
BuildArgsUserFirst(c, db, path) ==
    Flag("--user=", c.user) \o Flag("--host=", c.host)
        \o FlagNumber("--port=", c.port) \o Flag("--password=", c.password)
        \o <<db, "<", path>>

BuildArgs(c, db, path) ==
    Flag("--host=", c.host) \o FlagNumber("--port=", c.port)
        \o Flag("--user=", c.user) \o Flag("--password=", c.password)
        \o <<db, "<", path>>

\* args.join(" ")
RECURSIVE JoinArgs(_, _)
JoinArgs(args, sep) ==
    IF args = <<>> THEN ""
    ELSE IF Len(args) = 1 THEN args[1]
    ELSE args[1] \o sep \o JoinArgs(Tail(args), sep)

\* line 219: the line the debug flag prints
EchoLine(args) == "Running command: mysql " \o JoinArgs(args, " ")

\* line 226: the string given to sh -c
ShellCommand(args) == "mysql " \o JoinArgs(args, " ")

\* line 175: what read_dir lists: the input directory, which for
\* SplitImport is the output directory of the split (main line 290)
Listing ==
    IF cmd = "SplitImport"
    THEN [e \in 1..Cardinality(DOMAIN files) |-> "file"]
    ELSE entries

\* line 175: fs::read_dir(input)? fails and import returns the error
ReadDirError ==
    /\ cmd \in {"Import", "SplitImport"}
    /\ pc = "read_dir"
    /\ pc' = "done"
    /\ result' = "ReadDirError"
    /\ UNCHANGED <<cmd, splitVars, importVars>>

\* lines 175-190: enumerate the files, make the progress bar; line 192
\* takes the first chunk
ReadDir ==
    /\ cmd \in {"Import", "SplitImport"}
    /\ pc = "read_dir"
    /\ entries' = Listing
    /\ launches' = [e \in 1..Len(Listing) |-> 0]
    /\ paths' = Enumerate(Listing, 1)
    /\ commands' = [j \in 1..Len(paths') |-> ""]
    /\ tpc' = [j \in 1..Len(paths') |-> "unspawned"]
    /\ outcome' = [j \in 1..Len(paths') |-> "none"]
    /\ pos' = 0
    /\ spawned' = 0
    /\ handles' = <<>>
    /\ chunk_end' = ChunkEnd(0, parallel, Len(paths'))
    /\ pc' = IF paths' = <<>> THEN "finish" ELSE "spawn"
    /\ UNCHANGED <<cmd, result, splitVars, parallel, delete, msg, log,
                   finished, removals, conn, debug, echo>>

\* lines 193-237: the next path of the chunk: its thread is spawned and its
\* handle pushed
Spawn ==
    /\ pc = "spawn"
    /\ spawned < chunk_end
    /\ spawned' = spawned + 1
    /\ tpc' = [tpc EXCEPT ![spawned + 1] = "spawned"]
    /\ launches' = [launches EXCEPT ![paths[spawned + 1]] = @ + 1]
    /\ handles' = Append(handles, spawned + 1)
    /\ LET args == BuildArgs(conn, Database, PathString(paths[spawned + 1]))
       IN  /\ echo' = IF debug THEN Append(echo, EchoLine(args)) ELSE echo
           /\ commands' = [commands EXCEPT ![spawned + 1] = ShellCommand(args)]
    /\ pc' = IF spawned' = chunk_end THEN "join" ELSE "spawn"
    /\ UNCHANGED <<cmd, result, splitVars, entries, paths, parallel, delete,
                   chunk_end, outcome, pos, msg, log, finished, removals,
                   conn, debug>>

\* lines 239-242: join the next handle of the chunk; after the last one the
\* loop of line 192 takes the next chunk or ends
JoinHandle ==
    /\ pc = "join"
    /\ handles # <<>>
    /\ Joinable(tpc[Head(handles)])
    /\ handles' = Tail(handles)
    /\ IF JoinResult(outcome[Head(handles)]) = "panicked"
       THEN /\ pc' = "panicked"
            /\ UNCHANGED chunk_end
       ELSE IF handles' # <<>>
       THEN UNCHANGED <<pc, chunk_end>>
       ELSE IF spawned < Len(paths)
       THEN /\ pc' = "spawn"
            /\ chunk_end' = ChunkEnd(spawned, parallel, Len(paths))
       ELSE /\ pc' = "finish"
            /\ UNCHANGED chunk_end
    /\ UNCHANGED <<cmd, result, splitVars, entries, paths, parallel, delete,
                   spawned, tpc, outcome, pos, msg, log, finished, removals,
                   launches, cliVars>>

\* lines 224-227: sh is started for the job
Launch(j) ==
    /\ tpc[j] = "spawned"
    /\ tpc' = [tpc EXCEPT ![j] = "running"]
    /\ UNCHANGED <<cmd, pc, result, splitVars, entries, paths, parallel,
                   delete, spawned, chunk_end, handles, outcome, pos, msg,
                   log, finished, removals, launches, cliVars>>

\* lines 224-227: output() returns Err: the command could not be started
LaunchError(j) ==
    /\ tpc[j] = "spawned"
    /\ tpc' = [tpc EXCEPT ![j] = "returned"]
    /\ outcome' = [outcome EXCEPT ![j] = "launch_err"]
    /\ UNCHANGED <<cmd, pc, result, splitVars, entries, paths, parallel,
                   delete, spawned, chunk_end, handles, pos, msg, log,
                   finished, removals, launches, cliVars>>

\* lines 224-227: the command terminates and output() returns Ok with its
\* exit status
Exit(j) ==
    /\ tpc[j] = "running"
    /\ \E code \in {"zero", "nonzero"} :
           outcome' = [outcome EXCEPT ![j] = code]
    /\ tpc' = [tpc EXCEPT ![j] = "returned"]
    /\ UNCHANGED <<cmd, pc, result, splitVars, entries, paths, parallel,
                   delete, spawned, chunk_end, handles, pos, msg, log,
                   finished, removals, launches, cliVars>>

\* lines 229-231: if let Err(e) = output { eprintln!(..) }
Report(j) ==
    /\ tpc[j] = "returned"
    /\ tpc' = [tpc EXCEPT ![j] = "reported"]
    /\ log' = IF Reports(outcome[j]) THEN log \cup {j} ELSE log
    /\ UNCHANGED <<cmd, pc, result, splitVars, entries, paths, parallel,
                   delete, spawned, chunk_end, handles, outcome, pos, msg,
                   finished, removals, launches, cliVars>>

\* line 233: pb_clone.inc(1), one atomic update of the shared position
Inc(j) ==
    /\ tpc[j] = "reported"
    /\ tpc' = [tpc EXCEPT ![j] = "counted"]
    /\ pos' = Advance(outcome[j], pos)
    /\ UNCHANGED <<cmd, pc, result, splitVars, entries, paths, parallel,
                   delete, spawned, chunk_end, handles, outcome, msg, log,
                   finished, removals, launches, cliVars>>

\* line 234: pb_clone.set_message(..); the closure ends
SetMessage(j) ==
    /\ tpc[j] = "counted"
    /\ tpc' = [tpc EXCEPT ![j] = "finished"]
    /\ msg' = <<"Importing file", paths[j]>>
    /\ UNCHANGED <<cmd, pc, result, splitVars, entries, paths, parallel,
                   delete, spawned, chunk_end, handles, outcome, pos, log,
                   finished, removals, launches, cliVars>>

\* line 244: pb.finish_with_message: the completed event; the bar's position
\* is set to its length. Lines 246, 251-252: without delete, return Ok
Finish ==
    /\ pc = "finish"
    /\ finished' = TRUE
    /\ pos' = Len(paths)
    /\ msg' = <<"Import completed.">>
    /\ IF ShouldRemove(delete)
       THEN pc' = "remove" /\ UNCHANGED result
       ELSE pc' = "done" /\ result' = "Ok"
    /\ UNCHANGED <<cmd, splitVars, entries, paths, parallel, delete, spawned,
                   chunk_end, handles, tpc, outcome, log, removals, launches, cliVars>>

\* lines 247-252: fs::remove_dir_all(input) succeeds, import returns Ok
Remove ==
    /\ pc = "remove"
    /\ removals' = removals + 1
    /\ entries' = <<>>
    /\ files' = <<>>
    /\ pc' = "done"
    /\ result' = "Ok"
    /\ UNCHANGED <<cmd, dump, preamble, postamble, index, table_file,
                   table_lines, earlier, paths, parallel, delete, spawned,
                   chunk_end, handles, tpc, outcome, pos, msg, log, finished,
                   launches, cliVars>>

\* line 248: fs::remove_dir_all(input)? fails and import returns the error
RemoveError ==
    /\ pc = "remove"
    /\ removals' = removals + 1
    /\ pc' = "done"
    /\ result' = "RemoveError"
    /\ UNCHANGED <<cmd, splitVars, entries, paths, parallel, delete, spawned,
                   chunk_end, handles, tpc, outcome, pos, msg, log, finished,
                   launches, cliVars>>

\* main lines 263-274: the Import subcommand on a directory
InitImport ==
    InitFrom("Import", {<<>>}, Directories, 1..MaxParallel, BOOLEAN, {NoConn},
             {FALSE})

NextImport ==
    \/ ReadDirError
    \/ ReadDir
    \/ Spawn
    \/ JoinHandle
    \/ \E j \in Jobs : Launch(j)
    \/ \E j \in Jobs : LaunchError(j)
    \/ \E j \in Jobs : Exit(j)
    \/ \E j \in Jobs : Report(j)
    \/ \E j \in Jobs : Inc(j)
    \/ \E j \in Jobs : SetMessage(j)
    \/ Finish
    \/ Remove
    \/ RemoveError

SpecImport == InitImport /\ [][NextImport]_vars

\* main lines 263-274: Import with every combination of the optional connection parameters and
\* of the debug flag
InitArgs ==
    InitFrom("Import", {<<>>}, SeqsUpTo(EntryKinds, MaxArgsEntries),
             1..MaxArgsEntries, BOOLEAN, Connections, BOOLEAN)

SpecArgs == InitArgs /\ [][NextImport]_vars

\* the steps of the main thread of import_sql_files
MainStep ==
    \/ ReadDirError
    \/ ReadDir
    \/ Spawn
    \/ JoinHandle
    \/ Finish
    \/ Remove
    \/ RemoveError

\* the steps of the thread of job j other than the end of its command
ThreadStep(j) ==
    /\ j \in Jobs
    /\ \/ Launch(j)
       \/ LaunchError(j)
       \/ Report(j)
       \/ Inc(j)
       \/ SetMessage(j)

\* the command of job j terminates
CommandEnds(j) == j \in Jobs /\ Exit(j)

\* Import on directories of up to MaxFairEntries entries, where the main
\* thread and every job thread keep being scheduled and every command that
\* was started terminates
InitImportFair ==
    InitFrom("Import", {<<>>}, SeqsUpTo(EntryKinds, MaxFairEntries),
             1..MaxParallel, BOOLEAN, {NoConn}, {FALSE})

SpecImportFair ==
    /\ InitImportFair
    /\ [][NextImport]_vars
    /\ WF_vars(MainStep)
    /\ \A j \in 1..MaxFairEntries : WF_vars(ThreadStep(j))
    /\ \A j \in 1..MaxFairEntries : WF_vars(CommandEnds(j))

\* main lines 276-291: the SplitImport subcommand on dumps of up to
\* MaxPipelineLines lines
InitSplitImport ==
    InitFrom("SplitImport", SeqsUpTo(LineValues, MaxPipelineLines), {<<>>},
             1..MaxPipelineParallel, BOOLEAN, {NoConn}, {FALSE})

NextSplitImport ==
    \/ ScanIoError
    \/ Scan
    \/ SplitOpen
    \/ SplitLine
    \/ SplitEof
    \/ SplitIoError
    \/ ReadDirError
    \/ ReadDir
    \/ Spawn
    \/ JoinHandle
    \/ \E j \in Jobs : Launch(j)
    \/ \E j \in Jobs : LaunchError(j)
    \/ \E j \in Jobs : Exit(j)
    \/ \E j \in Jobs : Report(j)
    \/ \E j \in Jobs : Inc(j)
    \/ \E j \in Jobs : SetMessage(j)
    \/ Finish
    \/ Remove
    \/ RemoveError

SpecSplitImport == InitSplitImport /\ [][NextSplitImport]_vars

----------------------------------------------------------------------------
(* What the claims about scan and split speak of, stated on the dump *)

\* positions (1-based) of the lines starting with DROP TABLE
Starts(d) == {i \in 1..Len(d) : IsTableStart(d[i])}

\* the end-marker lines after the first table-start line
EndsAfterStart(d) ==
    {i \in 1..Len(d) : IsTableEnd(d[i]) /\ Starts(d) # {} /\ i > SetMin(Starts(d))}

\* the lines before the first table-start line
LinesBeforeFirstStart(d) ==
    IF Starts(d) = {} THEN d ELSE SubSeq(d, 1, SetMin(Starts(d)) - 1)

\* the lines after the last end marker that follows the first table start
LinesAfterLastEnd(d) ==
    IF EndsAfterStart(d) = {} THEN <<>>
    ELSE SubSeq(d, SetMax(EndsAfterStart(d)) + 1, Len(d))

\* the segment opened at s has an end marker before the next start or EOF
Closed(d, s) ==
    \E e \in (s + 1)..Len(d) :
        /\ IsTableEnd(d[e])
        /\ \A j \in (s + 1)..e : ~IsTableStart(d[j])

\* the last line of the segment opened at s: its end marker, else the line
\* before the next table start, else the last line of the dump
SegmentEnd(d, s) ==
    LET stops == {j \in (s + 1)..Len(d) : IsTableEnd(d[j]) \/ IsTableStart(d[j])}
    IN  IF stops = {} THEN Len(d)
        ELSE IF IsTableEnd(d[SetMin(stops)]) THEN SetMin(stops)
        ELSE SetMin(stops) - 1

SegmentLines(d, s) == SubSeq(d, s, SegmentEnd(d, s))

\* every segment is closed by an end marker
WellFormed(d) == \A s \in Starts(d) : Closed(d, s)

\* the file a segment is written to
PathOf(d, s) == OutputPath(TableName(d[s]))

\* the positions of a set, ascending
RECURSIVE Ascending(_)
Ascending(S) ==
    IF S = {} THEN <<>> ELSE <<SetMin(S)>> \o Ascending(S \ {SetMin(S)})

\* the bytes of lines, each ended by a newline
NewlineEnded(lines) == Concat([i \in 1..Len(lines) |-> WithNewline(lines[i])])

\* the number of lines of a newline-joined string
LineCount(bytes) ==
    IF bytes = <<>> THEN 0
    ELSE 1 + Cardinality({i \in 1..Len(bytes) : bytes[i] = NL})

Scanned == pc \in {"split", "lines"} \/ (cmd = "Split" /\ pc = "done" /\ result = "Ok")

SplitDone == cmd = "Split" /\ pc = "done" /\ result = "Ok"

\* C5: the preamble scan returns is the lines before the first line that
\* starts with DROP TABLE, joined by newlines: empty when the first line is
\* a table start, the whole dump when no line is a table start.
C5_Preamble ==
    Scanned =>
        /\ preamble = Join(LinesBeforeFirstStart(dump), NL)
        /\ (dump # <<>> /\ IsTableStart(dump[1])) => preamble = <<>>
        /\ Starts(dump) = {} => preamble = Join(dump, NL)

\* a scanned dump whose first table start follows some lines and is
\* followed by more lines
C5_Witness ==
    /\ Scanned
    /\ Starts(dump) # {}
    /\ SetMin(Starts(dump)) > 1
    /\ SetMin(Starts(dump)) < Len(dump)
    /\ preamble # <<>>

\* C6: the postamble scan returns is the lines strictly after the last
\* UNLOCK TABLES; line that follows the first DROP TABLE line, joined by
\* newlines; it is empty when there is no such line, and it starts after
\* the first table start, so it holds no preamble line.
C6_Postamble ==
    Scanned =>
        /\ postamble = Join(LinesAfterLastEnd(dump), NL)
        /\ EndsAfterStart(dump) = {} => postamble = <<>>
        /\ Starts(dump) = {} => postamble = <<>>
        /\ postamble # <<>> =>
               LineCount(preamble) + LineCount(postamble) + 2 <= Len(dump)

\* a scanned dump with an end marker before its first table start and a
\* non-empty postamble
C6_Witness ==
    /\ Scanned
    /\ dump # <<>>
    /\ IsTableEnd(dump[1])
    /\ postamble # <<>>

\* the bytes the amended C4 gives the file at path
FileBytes(d, path) ==
    LET s == SetMax({t \in Starts(d) : PathOf(d, t) = path})
    IN  Join(LinesBeforeFirstStart(d), NL) \o <<NL>>
        \o NewlineEnded(SegmentLines(d, s))
        \o Join(LinesAfterLastEnd(d), NL)

\* the bytes C4 as written gives it: an empty line after the preamble lines
FileBytesBlankLine(d, path) ==
    LET s == SetMax({t \in Starts(d) : PathOf(d, t) = path})
    IN  NewlineEnded(LinesBeforeFirstStart(d)) \o <<NL>>
        \o NewlineEnded(SegmentLines(d, s))
        \o Join(LinesAfterLastEnd(d), NL)

Body(path) ==
    SubSeq(files[path], Len(preamble) + 2, Len(files[path]) - Len(postamble))

\* C3 as written: a dump of N closed segments splits into N files whose
\* bodies, in segment order, concatenate to the segments' lines.
C3_Original ==
    (SplitDone /\ WellFormed(dump)) =>
        LET order == Ascending(Starts(dump))
        IN  /\ Cardinality(DOMAIN files) = Len(order)
            /\ Concat([k \in 1..Len(order) |-> Body(PathOf(dump, order[k]))])
                   = Concat([k \in 1..Len(order) |->
                                NewlineEnded(SegmentLines(dump, order[k]))])

----------------------------------------------------------------------------
(* What the claims about import speak of *)

\* a job whose thread exists and whose command has not yet returned
Outstanding == {j \in Jobs : tpc[j] \in {"spawned", "running"}}

\* a job whose command has returned (or could not be started)
Terminated == {j \in Jobs : tpc[j] \in {"returned", "reported", "counted", "finished"}}

Failed == {j \in Jobs : outcome[j] \in {"launch_err", "nonzero"}}

RegularFiles == {e \in 1..Len(entries) : entries[e] = "file"}

Enumerated == {paths[j] : j \in Jobs}

\* the loop of line 192 has ended
BatchesDone ==
    /\ cmd = "Import"
    /\ pc \in {"finish", "remove"} \/ (pc = "done" /\ result # "ReadDirError")

\* C1: at most `parallel` invocations are outstanding at any time; with
\* parallel = 1 a file's thread exists only once the previous file's
\* command has terminated.
C1_BoundedConcurrency ==
    /\ Cardinality(Outstanding) <= parallel
    /\ parallel = 1 =>
           \A j \in Jobs : (j > 1 /\ tpc[j] # "unspawned") => (j - 1) \in Terminated

\* `parallel` >= 2 commands run at once while more files wait
C1_Witness ==
    /\ parallel >= 2
    /\ Cardinality({j \in Jobs : tpc[j] = "running"}) = parallel
    /\ spawned < Len(paths)

\* C2: no entry's invocation is launched twice; once the batches are over
\* every regular file of the directory has been launched exactly once and
\* nothing else has, whatever the outcomes; and import never stops before it
\* returns, so a failed job blocks neither its siblings nor a later batch.
C2_LaunchedOnce ==
    /\ \A e \in DOMAIN launches : launches[e] <= 1
    /\ pc \in {"spawn", "join", "finish"} => Enumerated = RegularFiles
    /\ BatchesDone =>
           \A e \in DOMAIN launches : launches[e] = (IF e \in Enumerated THEN 1 ELSE 0)
    /\ (cmd = "Import" /\ pc # "done") => ENABLED NextImport

\* an import that returned after a first batch of two failed jobs and a
\* second batch
C2_Witness ==
    /\ BatchesDone
    /\ pc = "done"
    /\ parallel = 2
    /\ Len(paths) >= 3
    /\ outcome[1] = "nonzero"
    /\ outcome[2] = "launch_err"
    /\ \A j \in Jobs : launches[paths[j]] = 1

\* C7: the directory is removed at most once, only with the delete flag,
\* only after the completed event and after every job of every batch has
\* run to its end; with the flag set a returned import has attempted it
\* exactly once whatever the outcomes; without the flag it never does.
C7_Removal ==
    /\ removals <= 1
    /\ (pc = "remove" \/ removals = 1) =>
           /\ delete
           /\ finished
           /\ spawned = Len(paths)
           /\ \A j \in Jobs : tpc[j] = "finished"
    /\ (BatchesDone /\ pc = "done" /\ delete) => removals = 1
    /\ ~delete => removals = 0

\* the directory was removed after two or more jobs that all failed
C7_Witness ==
    /\ cmd = "Import"
    /\ pc = "done"
    /\ removals = 1
    /\ Len(paths) >= 2
    /\ Failed = Jobs

\* C8 as written: every job whose invocation failed to launch or exited
\* non-zero has a failure report once its thread has passed the report,
\* and is counted as completed.
C8_Original ==
    /\ \A j \in Failed : tpc[j] \in {"reported", "counted", "finished"} => j \in log
    /\ (BatchesDone /\ pc = "finish") => pos = Len(paths)

\* C9: import returns an error only from read_dir, before anything was
\* launched, or from the requested removal, after every batch and the
\* completed event; otherwise it returns Ok, whatever the jobs' outcomes.
C9_Result ==
    cmd = "Import" =>
        /\ result \in {"none", "Ok", "ReadDirError", "RemoveError"}
        /\ pc = "done" <=> result # "none"
        /\ result = "ReadDirError" =>
               /\ paths = <<>>
               /\ \A e \in DOMAIN launches : launches[e] = 0
               /\ ~finished
               /\ removals = 0
        /\ result = "RemoveError" =>
               /\ delete
               /\ finished
               /\ removals = 1
               /\ spawned = Len(paths)
               /\ \A j \in Jobs : tpc[j] = "finished"
        /\ (pc # "done") => ENABLED NextImport

\* import returned Ok with no deletion requested although jobs failed to
\* launch and exited non-zero
C9_Witness ==
    /\ cmd = "Import"
    /\ result = "Ok"
    /\ ~delete
    /\ \E j \in Jobs : outcome[j] = "launch_err"
    /\ \E j \in Jobs : outcome[j] = "nonzero"

\* C10: until the completed event the position is the number of jobs that
\* have passed their increment, it never exceeds the number of threads
\* spawned, and it equals the number of enumerated files when the
\* completed event is about to be emitted.
C10_Counter ==
    /\ ~finished => pos = Cardinality({j \in Jobs : tpc[j] \in {"counted", "finished"}})
    /\ pos <= spawned
    /\ pc = "finish" => pos = Len(paths)

\* the completed event is due after batches of concurrent jobs with every
\* outcome
C10_Witness ==
    /\ pc = "finish"
    /\ parallel >= 2
    /\ Len(paths) >= 3
    /\ pos = Len(paths)
    /\ \E j \in Jobs : outcome[j] = "launch_err"
    /\ \E j \in Jobs : outcome[j] = "nonzero"
    /\ \E j \in Jobs : outcome[j] = "zero"


----------------------------------------------------------------------------
(* Split run twice *)

SecondRunDone ==
    cmd = "Split" /\ earlier # <<>> /\ pc = "done" /\ result = "Ok"

\* C11: when Split has completed a second time on the same dump and output
\* directory, the directory holds the same files with the same bytes as
\* the first completed run left.
C11_Idempotent == SecondRunDone => files = earlier[1]

\* a second run completed on a dump that gives two files, one of them
\* written by two segments, with preamble and postamble
C11_Witness ==
    /\ SecondRunDone
    /\ Cardinality(DOMAIN files) >= 2
    /\ Cardinality(Starts(dump)) > Cardinality(DOMAIN files)
    /\ postamble # <<>>


----------------------------------------------------------------------------
(* Split-then-import *)

\* import_sql_files has been entered
ImportStarted ==
    \/ pc \in {"read_dir", "spawn", "join", "finish", "remove"}
    \/ pc = "done" /\ result \in {"Ok", "ReadDirError", "RemoveError"}

SplitFailed == result \in {"ScanError", "SplitError"}

\* the files whose table-start line is among the first n lines
PathsUpTo(d, n) == {PathOf(d, s) : s \in {t \in Starts(d) : t <= n}}

\* C12: in SplitImport the import stage is entered only when scan and split
\* have completed, with every output file written in full; when scan or
\* split fails the operation ends with that error, nothing is enumerated,
\* launched or removed, and the files written up to the failure stay.
C12_SplitBeforeImport ==
    cmd = "SplitImport" =>
        /\ ImportStarted =>
               /\ index = Len(dump)
               /\ table_file = NoFile
               /\ preamble = Join(LinesBeforeFirstStart(dump), NL)
               /\ postamble = Join(LinesAfterLastEnd(dump), NL)
        /\ pc \in {"read_dir", "spawn", "join", "finish", "remove"} =>
               /\ DOMAIN files = PathsUpTo(dump, Len(dump))
               /\ \A path \in DOMAIN files : files[path] = FileBytes(dump, path)
        /\ SplitFailed =>
               /\ pc = "done"
               /\ paths = <<>>
               /\ tpc = <<>>
               /\ launches = <<>>
               /\ ~finished
               /\ removals = 0
               /\ PathsUpTo(dump, index) \subseteq DOMAIN files
               /\ DOMAIN files \subseteq PathsUpTo(dump, index + 1)
        /\ result = "ScanError" => files = <<>>

\* split failed with the delete flag set after a file had been written
C12_Witness ==
    /\ cmd = "SplitImport"
    /\ result = "SplitError"
    /\ delete
    /\ index < Len(dump)
    /\ files # <<>>


----------------------------------------------------------------------------
(* Termination of import *)

\* the completed event has been emitted, nothing is removed yet, every
\* regular file of the directory was launched once and every job has ended
Completed ==
    /\ finished
    /\ removals = 0
    /\ Len(entries) = Len(launches)
    /\ \A e \in RegularFiles : launches[e] = 1
    /\ \A j \in Jobs : tpc[j] = "finished"

\* the last path index of the batch job j belongs to
BatchEnd(j) == parallel * (((j - 1) \div parallel) + 1)

\* while a command is outstanding no later batch has been started, the
\* completed event has not been emitted and nothing has been removed
HungBlocks ==
    \A j \in Outstanding :
        /\ spawned <= BatchEnd(j)
        /\ pc \in {"spawn", "join"}
        /\ ~finished
        /\ removals = 0

\* C13: when every command terminates, an import whose read_dir succeeds
\* emits the completed event after launching every regular file of the
\* directory, then performs the requested removal and returns; and as long
\* as a command of the current batch has not terminated, no later batch is
\* started and neither the completed event nor the removal happens.
C13_Liveness ==
    /\ []HungBlocks
    /\ (pc = "read_dir") ~> (result = "ReadDirError" \/ Completed)
    /\ (pc = "read_dir" /\ delete) ~> (result = "ReadDirError" \/ removals = 1)
    /\ (pc = "read_dir") ~> (pc = "done")

\* one command of a batch of two still runs after its sibling's thread has
\* ended, and a file waits for the next batch
C13_Witness ==
    /\ parallel = 2
    /\ spawned = 2
    /\ Len(paths) > 2
    /\ tpc[1] = "running"
    /\ tpc[2] = "finished"


----------------------------------------------------------------------------
(* The batch barrier *)

\* the last path index of the batch of job j in a list of n paths
ExpectedEnd(j, n) == IF BatchEnd(j) < n THEN BatchEnd(j) ELSE n

\* C14: the paths are dispatched in list order in consecutive batches of
\* exactly `parallel` paths, the last one possibly smaller; the main thread
\* waits only once the whole batch is spawned, and a job of a later batch
\* has a thread only when every job of the earlier batches has run to its
\* end.
C14_BatchBarrier ==
    cmd = "Import" =>
        /\ {j \in Jobs : tpc[j] # "unspawned"} = 1..spawned
        /\ \A i, j \in Jobs :
               (BatchEnd(i) < BatchEnd(j) /\ tpc[j] # "unspawned") => tpc[i] = "finished"
        /\ pc = "spawn" =>
               /\ spawned < chunk_end
               /\ chunk_end = ExpectedEnd(spawned + 1, Len(paths))
        /\ pc = "join" =>
               /\ spawned = chunk_end
               /\ chunk_end = ExpectedEnd(spawned, Len(paths))
               /\ \A k \in 1..Len(handles) : BatchEnd(handles[k]) = BatchEnd(spawned)
        /\ pc \in {"finish", "remove"} => spawned = Len(paths)

\* the third of three paths runs alone in the final batch after a full
\* batch of two whose jobs ended differently
C14_Witness ==
    /\ cmd = "Import"
    /\ parallel = 2
    /\ Len(paths) = 3
    /\ tpc[3] = "running"
    /\ outcome[1] = "zero"
    /\ outcome[2] = "nonzero"


----------------------------------------------------------------------------
(* The table identifier *)

Ticks(line) == {i \in 1..Len(line) : line[i] = BACKTICK}

\* name is the text after the first backtick of the line, up to the next
\* backtick or, without one, the end of the line
FollowsFirstTick(name, line) ==
    \E i \in Ticks(line) :
        /\ \A k \in 1..(i - 1) : line[k] # BACKTICK
        /\ i + Len(name) <= Len(line)
        /\ name = SubSeq(line, i + 1, i + Len(name))
        /\ \A k \in 1..Len(name) : name[k] # BACKTICK
        /\ i + Len(name) = Len(line) \/ line[i + Len(name) + 1] = BACKTICK

\* the start line of a one-line dump has been split
StartLineSplit ==
    /\ cmd = "Split"
    /\ pc = "lines"
    /\ index = 1
    /\ Len(dump) = 1
    /\ IsTableStart(dump[1])

\* the open file's name without its .sql suffix
Stem == SubSeq(table_file, 1, Len(table_file) - Len(SQL_SUFFIX))

\* C15 (amended): the file created for a table-start line is named
\* <identifier>.sql, where the identifier is the text between the first
\* backtick and the second one, the text from the first backtick to the end
\* of the line when there is no second one, and empty when the line has no
\* backtick.
C15_TableName ==
    StartLineSplit =>
        /\ table_file = Stem \o SQL_SUFFIX
        /\ DOMAIN files = {table_file}
        /\ IF Ticks(dump[1]) = {} THEN Stem = <<>>
           ELSE FollowsFirstTick(Stem, dump[1])

\* a start line with exactly one backtick, followed by text, was split
C15_Witness ==
    /\ StartLineSplit
    /\ Cardinality(Ticks(dump[1])) = 1
    /\ Stem # <<>>

\* C15 as written: the identifier is empty whenever the line has fewer than
\* two backticks.
C15_Original ==
    StartLineSplit =>
        /\ table_file = Stem \o SQL_SUFFIX
        /\ IF Cardinality(Ticks(dump[1])) < 2 THEN Stem = <<>>
           ELSE FollowsFirstTick(Stem, dump[1])


----------------------------------------------------------------------------
(* Segments with the same identifier *)

\* the table-start lines whose identifier is that of the start line s
SameIdentifier(d, s) == {t \in Starts(d) : TableName(d[t]) = TableName(d[s])}

\* what split writes for the segment opened at s, from creation to close
SegmentBytes(d, s) ==
    Join(LinesBeforeFirstStart(d), NL) \o <<NL>>
    \o NewlineEnded(SubSeq(d, s, SegmentEnd(d, s)))
    \o Join(LinesAfterLastEnd(d), NL)

\* C16: after a complete split, a path that two or more segments were
\* written to holds exactly what was written for the last of them, nothing
\* of the earlier ones, and the directory has one file per distinct
\* identifier rather than one per segment.
C16_Collision ==
    SplitDone =>
        /\ Cardinality(DOMAIN files)
               = Cardinality({TableName(dump[s]) : s \in Starts(dump)})
        /\ \A s \in Starts(dump) :
               Cardinality(SameIdentifier(dump, s)) >= 2 =>
                   files[PathOf(dump, s)]
                       = SegmentBytes(dump, SetMax(SameIdentifier(dump, s)))

\* a complete split of a dump where an identifier is used by two segments
\* of different length, the earlier one the longer, and another identifier
\* by a third segment
C16_Witness ==
    /\ SplitDone
    /\ Cardinality(DOMAIN files) = 2
    /\ \E s, t \in Starts(dump) :
           /\ s < t
           /\ t = SetMax(SameIdentifier(dump, s))
           /\ Len(SegmentBytes(dump, s)) > Len(SegmentBytes(dump, t))
           /\ files[PathOf(dump, t)] # SegmentBytes(dump, s)


----------------------------------------------------------------------------
(* One open file at a time *)

\* the table-start lines among the lines read so far
Seen == {s \in Starts(dump) : s <= index}

\* the segment of the last start line read is still running: no end marker
\* was read since
Running == Seen # {} /\ \A e \in SetMax(Seen)..index : ~IsTableEnd(dump[e])

\* C17: during the split pass the one open file, if any, is that of the
\* last table-start line read, and it holds the preamble and that line
\* while the following lines are buffered; every earlier segment's file was
\* finalized before the next one was created, so unless a later segment
\* re-created it, it holds the preamble, the segment's lines up to its end
\* marker or the line before the next table start, and the postamble.
C17_NeverNested ==
    (cmd = "Split" /\ pc = "lines") =>
        /\ (table_file # NoFile) = Running
        /\ DOMAIN files = PathsUpTo(dump, index)
        /\ Running =>
               /\ table_file = PathOf(dump, SetMax(Seen))
               /\ files[table_file]
                      = preamble \o <<NL>> \o WithNewline(dump[SetMax(Seen)])
               /\ table_lines = [k \in 1..(index - SetMax(Seen)) |->
                                    WithNewline(dump[SetMax(Seen) + k])]
        /\ \A t \in Seen :
               (/\ Running => t # SetMax(Seen)
                /\ \A u \in Seen : u > t => PathOf(dump, u) # PathOf(dump, t))
               => files[PathOf(dump, t)]
                      = preamble \o <<NL>>
                        \o NewlineEnded(SubSeq(dump, t, SegmentEnd(dump, t)))
                        \o postamble

\* a second table-start line was read while the file of a first one, with
\* buffered lines, was open; the second file is open and the first holds
\* its lines and a non-empty postamble
C17_Witness ==
    /\ cmd = "Split"
    /\ pc = "lines"
    /\ Running
    /\ postamble # <<>>
    /\ \E t \in Seen :
           /\ t < SetMax(Seen)
           /\ SegmentEnd(dump, t) = SetMax(Seen) - 1
           /\ SegmentEnd(dump, t) > t
           /\ ~IsTableEnd(dump[SegmentEnd(dump, t)])
           /\ PathOf(dump, t) # table_file
           /\ files[PathOf(dump, t)] # files[table_file]


----------------------------------------------------------------------------
(* Finalization *)

\* a step of the split pass that is not a failing one
SplitPassStep == cmd = "Split" /\ pc = "lines" /\ result' # "SplitError"

\* the files other than those in keep are left as they are
Untouched(keep) == \A p \in DOMAIN files \ keep : files'[p] = files[p]

\* what a line read does to the files
LineStep(line) ==
    /\ IsTableEnd(line) => table_file' = NoFile /\ table_lines' = <<>>
    /\ IsTableStart(line) =>
           /\ table_file' = OutputPath(TableName(line))
           /\ files'[table_file'] = preamble \o <<NL>> \o WithNewline(line)
           /\ table_lines' = <<>>
           /\ table_file \notin {NoFile, table_file'} =>
                  files'[table_file]
                      = files[table_file] \o Concat(table_lines) \o postamble
           /\ Untouched({table_file, table_file'})
    /\ (table_file # NoFile /\ IsTableEnd(line)) =>
           /\ files'[table_file]
                  = files[table_file] \o Concat(table_lines)
                    \o WithNewline(line) \o postamble
           /\ Untouched({table_file})
    /\ (table_file # NoFile /\ ~IsTableEnd(line) /\ ~IsTableStart(line)) =>
           /\ files' = files
           /\ table_file' = table_file
    /\ (table_file = NoFile /\ ~IsTableStart(line)) =>
           /\ files' = files
           /\ table_file' = NoFile

\* what the end of the dump does to them
EofStep ==
    /\ table_file' = NoFile
    /\ DOMAIN files' = DOMAIN files
    /\ table_file # NoFile =>
           files'[table_file]
               = files[table_file] \o Concat(table_lines) \o postamble
    /\ Untouched({table_file})

\* C18: the open file is finalized, by the buffered lines and the
\* postamble, at its end-marker line, at the next table-start line or at
\* the end of the dump, whichever comes first, and a file that is not open
\* is not written again unless a table-start line creates it anew; after an
\* end-marker line no file is open; a line read while no file is open
\* changes no file, and is dropped from the buffer by the next table-start
\* or end-marker line.
C18_FinalizedOnce ==
    [][SplitPassStep =>
           IF index' = index + 1 THEN LineStep(dump[index + 1]) ELSE EofStep]_vars

\* a file was finalized by its end marker, a line was then read and
\* buffered while no file is open, and a table-start line comes next
C18_Witness ==
    /\ cmd = "Split"
    /\ pc = "lines"
    /\ index < Len(dump)
    /\ IsTableStart(dump[index + 1])
    /\ table_file = NoFile
    /\ table_lines # <<>>
    /\ files # <<>>
    /\ \E e \in 1..index : IsTableEnd(dump[e]) /\ Seen # {} /\ e > SetMin(Seen)


----------------------------------------------------------------------------
(* The invocation *)

\* the text a present parameter contributes to the command line
Shown(name, opt, value) == IF opt = None THEN "" ELSE name \o value \o " "

\* the command line for the j-th path: the flags of the present parameters
\* in the order host, port, user, password, the database, the redirect
Invocation(j) ==
    Shown("--host=", conn.host, "h")
        \o Shown("--port=", conn.port, "3306")
        \o Shown("--user=", conn.user, "u")
        \o Shown("--password=", conn.password, "p")
        \o Database \o " < " \o PathString(paths[j])

\* C19: the command given to the shell for a file is mysql followed by one
\* flag for each present parameter and none for an absent one, in the order
\* host, port, user, password, then the database name and the redirect from
\* the file's path; with the debug flag the line echoed for the file shows
\* that same command, and without it nothing is echoed.
C19_Invocation ==
    (cmd = "Import" /\ pc \in {"spawn", "join", "finish", "remove", "done"}
        /\ result # "ReadDirError") =>
        /\ \A j \in 1..spawned : commands[j] = "mysql " \o Invocation(j)
        /\ debug =>
               /\ Len(echo) = spawned
               /\ \A j \in 1..spawned :
                      echo[j] = "Running command: " \o commands[j]
        /\ ~debug => echo = <<>>

\* with host and user present, port and password absent and the debug
\* flag set, two files were echoed and the command of the first has ended
C19_Witness ==
    /\ cmd = "Import"
    /\ debug
    /\ conn.host # None
    /\ conn.port = None
    /\ conn.user # None
    /\ conn.password = None
    /\ spawned = 2
    /\ Len(echo) = 2
    /\ outcome[1] = "zero"


----------------------------------------------------------------------------
(* Table-start lines in an output file *)

\* the positions where a line of a newline-separated text begins
LineBegins(bytes) == {i \in 1..Len(bytes) : i = 1 \/ bytes[i - 1] = NL}

\* the lines of the text that start with DROP TABLE
DropLines(bytes) ==
    {i \in LineBegins(bytes) :
        /\ i + Len(DROP_TABLE) - 1 <= Len(bytes)
        /\ SubSeq(bytes, i, i + Len(DROP_TABLE) - 1) = DROP_TABLE}

\* C20 as written: every file a completed split leaves holds exactly one
\* line starting with DROP TABLE, so the postamble appended to it carries no
\* line of a table segment.
C20_Original ==
    SplitDone =>
        \A path \in DOMAIN files : Cardinality(DropLines(files[path])) = 1

====
